---- MODULE Spec2Model ----
(***************************************************************************)
(* Model of sleep_analysis.py: the Chrome history loader, the chunked      *)
(* YouTube history scan, the gap-based sleep inference and the statistics  *)
(* block of analyze_sleep_patterns.                                        *)
(*                                                                         *)
(* Time is counted in whole minutes since 00:00 of day 0 (local time); the *)
(* code's datetime values have microsecond resolution, and every decision  *)
(* it takes on them (ordering, equality, the 4h/14h comparison, hour and   *)
(* date extraction) is preserved by that scale.  A float number of hours   *)
(* is kept as the exact fraction num/den.                                  *)
(***************************************************************************)
EXTENDS Integers, Sequences, FiniteSets, TLC

VARIABLES
    pc,             \* position of the running function
    fault,          \* "none", or the exception that left the function
    entries,        \* load_browser_history: the 'Browser History' list
    entry_idx,      \* load_browser_history: entries consumed so far
    records,        \* load_browser_history: records collected
    df,             \* infer_sleep_periods: the frame passed in
    gap_threshold,  \* infer_sleep_periods: the gap_threshold argument
    timeline,       \* infer_sleep_periods: df after line 111 (rows)
    i,              \* infer_sleep_periods: loop index (0-based, as in Python)
    sleep_periods,  \* infer_sleep_periods: the list being built
    sleep_df,       \* the frame infer_sleep_periods returned
    stats,          \* analyze_sleep_patterns: the stats dict
    content,        \* load_youtube_history: the file's text
    chunk_size,     \* load_youtube_history: characters per read
    file_pos,       \* load_youtube_history: characters already read
    text_buffer,    \* load_youtube_history: the carried text
    yt_records      \* load_youtube_history: records collected

vars == <<pc, fault, entries, entry_idx, records, df, gap_threshold, timeline,
          i, sleep_periods, sleep_df, stats, content, chunk_size, file_pos,
          text_buffer, yt_records>>

browserVars == <<entries, entry_idx, records>>
inferVars   == <<df, gap_threshold, timeline, i, sleep_periods, sleep_df>>
youtubeVars == <<content, chunk_size, file_pos, text_buffer, yt_records>>

----------------------------------------------------------------------------
(* Units and program constants *)

MinutesPerHour == 60
HoursPerDay == 24
MinutesPerDay == MinutesPerHour * HoursPerDay

MinSleepHours == 4
MaxSleepHours == 14
DefaultGapThreshold == 4
DefaultDays == 30

(* Bounds of the model *)
MaxLen == 3         \* rows of a frame passed to infer_sleep_periods
MaxRecords == 4     \* Chrome records reaching analyze_sleep_patterns
MaxEntries == 3     \* entries of a 'Browser History' list
MaxFile == 5        \* characters of a YouTube history file
MaxChunk == 3       \* characters per read of that file

(* Instants the inputs are drawn from, in minutes since day 0 00:00:       *)
(* day 0 01:00, 01:05, 05:05, 09:10, 15:05, 19:05, 23:00; day 1 05:05;     *)
(* day 2 02:00.  They give gaps of 5 min, exactly 4 h, 4 h 05, exactly     *)
(* 14 h, 14 h 05 and 27 h, with and without a midnight between the two     *)
(* events.  ChromeInstants adds day 1 01:05 and 15:05, which give three    *)
(* periods in a row whose start hours repeat.                              *)
Instants == {60, 65, 305, 550, 905, 1145, 1380, 1745, 3000}
ChromeInstants == Instants \cup {1505, 2345}
Sources == {"chrome", "youtube"}
GapThresholds == {DefaultGapThreshold, 6}

Event == [timestamp : Instants, source : Sources]

SeqsUpTo(S, n) == UNION {[1..k -> S] : k \in 0..n}

----------------------------------------------------------------------------
(* pandas and datetime primitives *)

\* pd.DataFrame(list_of_dicts): the columns are the keys of the dicts, so a
\* frame built from an empty list has no column at all.
DataFrame(recs) ==
    [columns |-> IF recs = <<>> THEN {} ELSE DOMAIN recs[1], rows |-> recs]

\* df.sort_values('timestamp'): the default sort (kind='quicksort') is not
\* stable, so rows sharing a timestamp may come out in any order.  The set of
\* all orderings of the rows that are non-decreasing by timestamp.  (Of rows
\* that are equal in every column only the one of lowest index is tried as
\* the next row: taking another gives the same sequence.)
RECURSIVE SortedOrders(_, _)
SortedOrders(rows, idx) ==
    IF idx = {} THEN {<<>>}
    ELSE LET least == {j \in idx :
                         /\ \A k \in idx : rows[j].timestamp <= rows[k].timestamp
                         /\ \A k \in idx : rows[k] = rows[j] => j <= k}
         IN  UNION {{<<rows[j]>> \o s : s \in SortedOrders(rows, idx \ {j})} :
                    j \in least}

SortValues(rows) == SortedOrders(rows, DOMAIN rows)

\* Mutant of DropDuplicates: nothing is dropped.
DropDuplicatesKeepAll(rows) == rows

\* .drop_duplicates(subset=['timestamp']): keep='first'.
RECURSIVE DropDuplicates(_)
DropDuplicates(rows) ==
    IF rows = <<>> THEN <<>>
    ELSE LET n    == Len(rows)
             init == DropDuplicates(SubSeq(rows, 1, n - 1))
         IN  IF \E k \in 1..(n - 1) : rows[k].timestamp = rows[n].timestamp
             THEN init
             ELSE Append(init, rows[n])

\* df.iloc[k] with Python's 0-based k.
Iloc(rows, k) == rows[k + 1]

\* timedelta.total_seconds() / 3600: the gap in hours, as an exact fraction.
TotalHours(minutes) == [num |-> minutes, den |-> MinutesPerHour]

IntLeqHours(n, h) == n * h.den <= h.num
HoursLeqInt(h, n) == h.num <= n * h.den

\* datetime.date() and datetime.hour
DateOf(t) == t \div MinutesPerDay
HourOf(t) == (t \div MinutesPerHour) % HoursPerDay

----------------------------------------------------------------------------
(* infer_sleep_periods(df, gap_threshold=4) *)

\* Mutant of IsSleepGap: the lower bound is exclusive.
IsSleepGapStrict(gap_hours, threshold) ==
    /\ ~HoursLeqInt(gap_hours, MinSleepHours)
    /\ HoursLeqInt(gap_hours, MaxSleepHours)

\* line 119: if 4 <= gap_hours <= 14  (gap_threshold is not consulted)
IsSleepGap(gap_hours, threshold) ==
    /\ IntLeqHours(MinSleepHours, gap_hours)
    /\ HoursLeqInt(gap_hours, MaxSleepHours)

\* Mutant of SleepPeriod: dated by the day the gap ends, sources swapped.
SleepPeriodDatedByEnd(rows, k) ==
    LET sleep_start == Iloc(rows, k).timestamp
        sleep_end   == Iloc(rows, k + 1).timestamp
    IN  [sleep_start    |-> sleep_start,
         sleep_end      |-> sleep_end,
         duration_hours |-> TotalHours(sleep_end - sleep_start),
         date           |-> DateOf(sleep_end),
         start_source   |-> Iloc(rows, k + 1).source,
         end_source     |-> Iloc(rows, k).source]

\* lines 120-130: the dict appended for the pair (k, k+1)
SleepPeriod(rows, k) ==
    LET sleep_start == Iloc(rows, k).timestamp
        sleep_end   == Iloc(rows, k + 1).timestamp
    IN  [sleep_start    |-> sleep_start,
         sleep_end      |-> sleep_end,
         duration_hours |-> TotalHours(sleep_end - sleep_start),
         date           |-> DateOf(sleep_start),
         start_source   |-> Iloc(rows, k).source,
         end_source     |-> Iloc(rows, k + 1).source]

\* Mutant of AppendPeriod: the new period goes to the front.
PrependPeriod(list, period) == <<period>> \o list

\* line 123: sleep_periods.append(...)
AppendPeriod(list, period) == Append(list, period)

\* line 111: sort, then drop duplicates; KeyError when the frame has no
\* 'timestamp' column.
InferSort ==
    /\ pc = "infer"
    /\ IF "timestamp" \notin df.columns
       THEN /\ fault' = "KeyError"
            /\ pc' = "infer_raised"
            /\ UNCHANGED <<timeline, i, sleep_periods>>
       ELSE /\ \E s \in SortValues(df.rows) : timeline' = DropDuplicates(s)
            /\ sleep_periods' = <<>>
            /\ i' = 0
            /\ pc' = "scan"
            /\ UNCHANGED fault
    /\ UNCHANGED <<df, gap_threshold, sleep_df, stats>>
    /\ UNCHANGED <<browserVars, youtubeVars>>

\* lines 114-130: one iteration of the loop over range(len(df) - 1)
InferGap ==
    /\ pc = "scan"
    /\ i < Len(timeline) - 1
    /\ LET gap       == Iloc(timeline, i + 1).timestamp - Iloc(timeline, i).timestamp
           gap_hours == TotalHours(gap)
       IN  sleep_periods' =
               IF IsSleepGap(gap_hours, gap_threshold)
               THEN AppendPeriod(sleep_periods, SleepPeriod(timeline, i))
               ELSE sleep_periods
    /\ i' = i + 1
    /\ UNCHANGED <<pc, fault, df, gap_threshold, timeline, sleep_df, stats>>
    /\ UNCHANGED <<browserVars, youtubeVars>>

\* line 132: return pd.DataFrame(sleep_periods)
InferReturn ==
    /\ pc = "scan"
    /\ ~(i < Len(timeline) - 1)
    /\ sleep_df' = DataFrame(sleep_periods)
    /\ pc' = "inferred"
    /\ UNCHANGED <<fault, df, gap_threshold, timeline, i, sleep_periods, stats>>
    /\ UNCHANGED <<browserVars, youtubeVars>>

NoFrame == [columns |-> {}, rows |-> <<>>]
NoStats == [num_days |-> -1]

IdleBrowser == entries = <<>> /\ entry_idx = 0 /\ records = <<>>
IdleYoutube ==
    /\ content = <<>> /\ chunk_size = 1 /\ file_pos = 0
    /\ text_buffer = <<>> /\ yt_records = <<>>

InferInit(thresholds) ==
    /\ pc = "infer"
    /\ fault = "none"
    /\ df \in {DataFrame(rows) : rows \in SeqsUpTo(Event, MaxLen)}
    /\ gap_threshold \in thresholds
    /\ timeline = <<>>
    /\ i = 0
    /\ sleep_periods = <<>>
    /\ sleep_df = NoFrame
    /\ stats = NoStats
    /\ IdleBrowser
    /\ IdleYoutube

InferNext == InferSort \/ InferGap \/ InferReturn

\* infer_sleep_periods called with the default gap_threshold
SpecInfer == InferInit({DefaultGapThreshold}) /\ [][InferNext]_vars

\* infer_sleep_periods called with an explicit gap_threshold
SpecThreshold == InferInit(GapThresholds) /\ [][InferNext]_vars

----------------------------------------------------------------------------
(* analyze_sleep_patterns(chrome_file, days=30): lines 198-210 *)

Range(seq) == {seq[k] : k \in DOMAIN seq}

RECURSIVE SortedSeq(_)
SortedSeq(S) ==
    IF S = {} THEN <<>>
    ELSE LET least == CHOOSE v \in S : \A w \in S : v <= w
         IN  <<least>> \o SortedSeq(S \ {least})

\* Mutant of Mode: every value that occurs, in descending order.
RECURSIVE SortedSeqDescending(_)
SortedSeqDescending(S) ==
    IF S = {} THEN <<>>
    ELSE LET most == CHOOSE v \in S : \A w \in S : w <= v
         IN  <<most>> \o SortedSeqDescending(S \ {most})

ModeAnyDescending(vals) == SortedSeqDescending({vals[k] : k \in DOMAIN vals})

\* Series.mode(): the values of highest count, in ascending order.
Mode(vals) ==
    LET count(v) == Cardinality({k \in DOMAIN vals : vals[k] = v})
    IN  SortedSeq({v \in Range(vals) : \A w \in Range(vals) : count(w) <= count(v)})

RECURSIVE SumSeq(_)
SumSeq(vals) ==
    IF vals = <<>> THEN 0 ELSE vals[1] + SumSeq(Tail(vals))

\* sorted(vals), duplicates kept
RECURSIVE SortedList(_)
SortedList(vals) ==
    IF vals = <<>> THEN <<>>
    ELSE LET k == CHOOSE j \in DOMAIN vals : \A m \in DOMAIN vals : vals[j] <= vals[m]
         IN  <<vals[k]>> \o
             SortedList([m \in 1..(Len(vals) - 1) |->
                            IF m < k THEN vals[m] ELSE vals[m + 1]])

\* Series.mean(), .median() and .std() ** 2 of duration_hours, as fractions;
\* the sample variance of fewer than 2 values is NaN.
Mean(rows) ==
    LET mins == [k \in DOMAIN rows |-> rows[k].duration_hours.num]
    IN  [num |-> SumSeq(mins), den |-> MinutesPerHour * Len(rows)]

Median(rows) ==
    LET mins == SortedList([k \in DOMAIN rows |-> rows[k].duration_hours.num])
        n    == Len(mins)
    IN  IF n % 2 = 1
        THEN [num |-> mins[(n + 1) \div 2], den |-> MinutesPerHour]
        ELSE [num |-> mins[n \div 2] + mins[n \div 2 + 1], den |-> 2 * MinutesPerHour]

Variance(rows) ==
    LET mins == [k \in DOMAIN rows |-> rows[k].duration_hours.num]
        n    == Len(mins)
        sq   == [k \in DOMAIN mins |-> mins[k] * mins[k]]
    IN  IF n < 2 THEN "NaN"
        ELSE [num |-> n * SumSeq(sq) - SumSeq(mins) * SumSeq(mins),
              den |-> n * (n - 1) * MinutesPerHour * MinutesPerHour]

\* lines 201-210: the stats dict of a frame that has the columns
StatsOf(frame, browser_df) ==
    LET rows  == frame.rows
        dates == {rows[k].date : k \in DOMAIN rows}
    IN  [average_sleep |-> Mean(rows),
         std_sleep_squared |-> Variance(rows),
         median_sleep  |-> Median(rows),
         num_days      |-> Len(rows),
         date_min      |-> CHOOSE d \in dates : \A e \in dates : d <= e,
         date_max      |-> CHOOSE d \in dates : \A e \in dates : e <= d,
         most_common_sleep_hour |->
             Iloc(Mode([k \in DOMAIN rows |-> HourOf(rows[k].sleep_start)]), 0),
         most_common_wake_hour |->
             Iloc(Mode([k \in DOMAIN rows |-> HourOf(rows[k].sleep_end)]), 0),
         chrome_entries |-> Len(browser_df.rows)]

\* lines 201-210: sleep_df['duration_hours'] raises KeyError on a frame that
\* has no such column, which is the frame built from an empty list.
Statistics ==
    /\ pc = "inferred"
    /\ IF "duration_hours" \notin sleep_df.columns
       THEN /\ fault' = "KeyError"
            /\ pc' = "stats_raised"
            /\ UNCHANGED stats
       ELSE /\ stats' = StatsOf(sleep_df, df)
            /\ pc' = "analyzed"
            /\ UNCHANGED fault
    /\ UNCHANGED <<inferVars, browserVars, youtubeVars>>

ChromeEvent == [timestamp : ChromeInstants, source : {"chrome"}]

\* line 193 has returned browser_df: Chrome records, in the order of the file
AnalyzeInit ==
    /\ pc = "infer"
    /\ fault = "none"
    /\ df \in {DataFrame(rows) : rows \in SeqsUpTo(ChromeEvent, MaxRecords)}
    /\ gap_threshold = DefaultGapThreshold
    /\ timeline = <<>>
    /\ i = 0
    /\ sleep_periods = <<>>
    /\ sleep_df = NoFrame
    /\ stats = NoStats
    /\ IdleBrowser
    /\ IdleYoutube

AnalyzeNext == InferSort \/ InferGap \/ InferReturn \/ Statistics

SpecAnalyze == AnalyzeInit /\ [][AnalyzeNext]_vars

----------------------------------------------------------------------------
(* load_browser_history(filepath, days=30): lines 16-42 *)

\* datetime.now(), and line 16: cutoff_date = now - timedelta(days=days).
\* The clock is set so that the cutoff is day 0 01:05.
Now == DefaultDays * MinutesPerDay + 65
CutoffDate(now, days) == now - days * MinutesPerDay

\* What a 'Browser History' entry can be.  form: "dict", or "other" for a
\* JSON list, string, number or null.  field, the value under 'time_usec':
\*   "absent"   no such key              "null"    JSON null
\*   "int"      an integer               "numstr"  a string of digits
\*   "badstr"   a string int() rejects
\*   "huge_year"    an integer past year 9999 (fromtimestamp: ValueError)
\*   "huge_time_t"  an integer past the platform time_t (OverflowError)
\* value: the time the integer or digit string denotes, in minutes.
BrowserInstants == {t \in Instants : t <= 905}

Entries ==
    [form : {"dict"}, field : {"int", "numstr"}, value : BrowserInstants]
    \cup [form : {"dict"},
          field : {"absent", "null", "badstr", "huge_year", "huge_time_t"},
          value : {0}]
    \cup [form : {"other"}, field : {"absent"}, value : {0}]

\* lines 29-30: what int(entry['time_usec']) and datetime.fromtimestamp do
EntryOutcome(entry) ==
    IF entry.form # "dict" THEN "TypeError"
    ELSE IF entry.field = "absent" THEN "KeyError"
    ELSE IF entry.field = "null" THEN "TypeError"
    ELSE IF entry.field = "badstr" THEN "ValueError"
    ELSE IF entry.field = "huge_year" THEN "ValueError"
    ELSE IF entry.field = "huge_time_t" THEN "OverflowError"
    ELSE "ok"

\* line 38: except (KeyError, ValueError)
Caught(outcome) == outcome \in {"KeyError", "ValueError"}

\* lines 27-39: one iteration over entries
BrowserEntry ==
    /\ pc = "load"
    /\ entry_idx < Len(entries)
    /\ LET entry   == entries[entry_idx + 1]
           outcome == EntryOutcome(entry)
       IN  IF outcome = "ok"
           THEN /\ records' =
                       IF entry.value >= CutoffDate(Now, DefaultDays)
                       THEN Append(records,
                                   [timestamp |-> entry.value, source |-> "chrome"])
                       ELSE records
                /\ entry_idx' = entry_idx + 1
                /\ UNCHANGED <<pc, fault>>
           ELSE IF Caught(outcome)
           THEN /\ entry_idx' = entry_idx + 1
                /\ UNCHANGED <<pc, fault, records>>
           ELSE /\ fault' = outcome
                /\ pc' = "load_raised"
                /\ UNCHANGED <<entry_idx, records>>
    /\ UNCHANGED <<entries, inferVars, stats, youtubeVars>>

\* lines 41-42: return pd.DataFrame(records)
BrowserReturn ==
    /\ pc = "load"
    /\ entry_idx = Len(entries)
    /\ df' = DataFrame(records)
    /\ pc' = "loaded"
    /\ UNCHANGED <<fault, browserVars, gap_threshold, timeline, i,
                   sleep_periods, sleep_df, stats, youtubeVars>>

BrowserInit ==
    /\ pc = "load"
    /\ fault = "none"
    /\ entries \in SeqsUpTo(Entries, MaxEntries)
    /\ entry_idx = 0
    /\ records = <<>>
    /\ df = NoFrame
    /\ gap_threshold = DefaultGapThreshold
    /\ timeline = <<>>
    /\ i = 0
    /\ sleep_periods = <<>>
    /\ sleep_df = NoFrame
    /\ stats = NoStats
    /\ IdleYoutube

BrowserNext == BrowserEntry \/ BrowserReturn

SpecBrowser == BrowserInit /\ [][BrowserNext]_vars

----------------------------------------------------------------------------
(* load_youtube_history(filepath, days=30): lines 51-95 *)

\* The file's text, over six characters.  "n" is the newline.  "t" followed
\* by one of "1", "2", "0", "9" stands for one match of the timestamp pattern
\* of line 73, which is longer than one character and holds no newline; the
\* second character tells what the matched text denotes: "1" and "2" two
\* instants inside the window, "0" an instant before the cutoff, "9" a text
\* strptime rejects (ValueError).  Any other character is other text.
Chars == {"t", "1", "2", "0", "9", "n"}
Marks == {"1", "2", "0", "9"}

\* re.finditer(...): the marks of the matches in text, left to right
RECURSIVE FindIter(_)
FindIter(text) ==
    IF Len(text) < 2 THEN <<>>
    ELSE IF text[1] = "t" /\ text[2] \in Marks
         THEN <<text[2]>> \o FindIter(SubSeq(text, 3, Len(text)))
         ELSE FindIter(Tail(text))

\* lines 76-86: the records the matches add
RECURSIVE MatchRecords(_)
MatchRecords(marks) ==
    IF marks = <<>> THEN <<>>
    ELSE LET timestamp == IF marks[1] = "1" THEN 305
                          ELSE IF marks[1] = "2" THEN 905 ELSE 60
             rest == MatchRecords(Tail(marks))
         IN  IF marks[1] = "9" THEN rest
             ELSE IF timestamp >= CutoffDate(Now, DefaultDays)
                  THEN <<[timestamp |-> timestamp, source |-> "youtube"]>> \o rest
                  ELSE rest

\* str.rfind('\n'): 0-based index of the last newline, or -1
RFindNewline(text) ==
    IF \E k \in DOMAIN text : text[k] = "n"
    THEN (CHOOSE k \in DOMAIN text :
              text[k] = "n" /\ \A m \in DOMAIN text : text[m] = "n" => m <= k) - 1
    ELSE -1

\* lines 89-91: the text kept for the next read
CarryOver(text) ==
    LET last_newline == RFindNewline(text)
    IN  IF last_newline # -1
        THEN SubSeq(text, last_newline + 2, Len(text))
        ELSE text

\* lines 62-91: one read of chunk_size characters and the scan of the buffer
YoutubeChunk ==
    /\ pc = "yt_read"
    /\ file_pos < Len(content)
    /\ LET upto  == IF file_pos + chunk_size < Len(content)
                    THEN file_pos + chunk_size ELSE Len(content)
           chunk == SubSeq(content, file_pos + 1, upto)
           text  == text_buffer \o chunk
       IN  /\ yt_records' = yt_records \o MatchRecords(FindIter(text))
           /\ text_buffer' = CarryOver(text)
           /\ file_pos' = upto
    /\ UNCHANGED <<pc, fault, content, chunk_size, stats>>
    /\ UNCHANGED <<browserVars, inferVars>>

\* lines 63-64 and 93-95: read() returns '' and the records are returned
YoutubeReturn ==
    /\ pc = "yt_read"
    /\ file_pos = Len(content)
    /\ df' = DataFrame(yt_records)
    /\ pc' = "yt_loaded"
    /\ UNCHANGED <<fault, gap_threshold, timeline, i, sleep_periods, sleep_df,
                   stats, browserVars, youtubeVars>>

YoutubeInit ==
    /\ pc = "yt_read"
    /\ fault = "none"
    /\ content \in SeqsUpTo(Chars, MaxFile)
    /\ chunk_size \in 1..MaxChunk
    /\ file_pos = 0
    /\ text_buffer = <<>>
    /\ yt_records = <<>>
    /\ df = NoFrame
    /\ gap_threshold = DefaultGapThreshold
    /\ timeline = <<>>
    /\ i = 0
    /\ sleep_periods = <<>>
    /\ sleep_df = NoFrame
    /\ stats = NoStats
    /\ IdleBrowser

YoutubeNext == YoutubeChunk \/ YoutubeReturn

SpecYoutube == YoutubeInit /\ [][YoutubeNext]_vars

----------------------------------------------------------------------------
(* Properties of infer_sleep_periods *)

\* The distinct timestamps of the frame passed in, and the pairs of them
\* that are adjacent in time.
InputTimes == {df.rows[k].timestamp : k \in DOMAIN df.rows}

AdjacentTimes(a, b) ==
    /\ a \in InputTimes /\ b \in InputTimes /\ a < b
    /\ ~ \E c \in InputTimes : a < c /\ c < b

Emitted(a, b) ==
    \E k \in DOMAIN sleep_df.rows :
        sleep_df.rows[k].sleep_start = a /\ sleep_df.rows[k].sleep_end = b

TimesOf(rows) == [k \in DOMAIN rows |-> rows[k].timestamp]

\* C1: when infer_sleep_periods returns, a period is emitted for a pair of
\* timestamps adjacent in the sorted, deduplicated input if and only if their
\* gap lies in the closed range [4 h, 14 h]; each such pair gets exactly one
\* period, nothing else is emitted, and no duration is outside [4, 14].
C1_EmittedIffGapInRange ==
    pc = "inferred" =>
        /\ \A a \in InputTimes : \A b \in InputTimes :
               AdjacentTimes(a, b) =>
                   (Emitted(a, b) <=>
                        /\ 4 * MinutesPerHour <= b - a
                        /\ b - a <= 14 * MinutesPerHour)
        /\ \A k \in DOMAIN sleep_df.rows :
               LET p == sleep_df.rows[k]
               IN  /\ AdjacentTimes(p.sleep_start, p.sleep_end)
                   /\ 4 * p.duration_hours.den <= p.duration_hours.num
                   /\ p.duration_hours.num <= 14 * p.duration_hours.den
                   /\ \A m \in DOMAIN sleep_df.rows :
                          sleep_df.rows[m].sleep_start = p.sleep_start => m = k

\* C1 witness: the input 01:05, 05:05, 19:05 has returned its two periods,
\* one of exactly 4 h and one of exactly 14 h.
C1_Witness ==
    /\ pc = "inferred"
    /\ InputTimes = {65, 305, 1145}
    /\ Emitted(65, 305)
    /\ Emitted(305, 1145)

\* C3: a frame with fewer than 2 events makes infer_sleep_periods return an
\* empty sequence of periods and raise nothing.
C3_FewEventsReturnEmpty ==
    Len(df.rows) < 2 =>
        /\ fault = "none"
        /\ pc = "inferred" => sleep_df.rows = <<>>

\* C4: the gap_threshold argument is the lower acceptance bound: a pair of
\* adjacent timestamps gets a period if and only if its gap is at least
\* gap_threshold hours and at most 14 hours.
C4_ThresholdIsLowerBound ==
    pc = "inferred" =>
        \A a \in InputTimes : \A b \in InputTimes :
            AdjacentTimes(a, b) =>
                (Emitted(a, b) <=>
                     /\ gap_threshold * MinutesPerHour <= b - a
                     /\ b - a <= 14 * MinutesPerHour)

\* C5: the timeline the loop scans is strictly increasing by timestamp, its
\* rows are rows of the input, its timestamps are exactly the distinct
\* timestamps of the input, and every timeline that can be built from the
\* input concatenated with itself has the same timestamps.
C5_TimelineSortedUniqueIdempotent ==
    pc = "scan" =>
        /\ \A k \in 1..(Len(timeline) - 1) :
               timeline[k].timestamp < timeline[k + 1].timestamp
        /\ \A k \in DOMAIN timeline :
               \E j \in DOMAIN df.rows : timeline[k] = df.rows[j]
        /\ {timeline[k].timestamp : k \in DOMAIN timeline} = InputTimes
        /\ i = 0 =>
               \A s \in SortValues(df.rows \o df.rows) :
                   TimesOf(DropDuplicates(s)) = TimesOf(timeline)

\* C5 witness: an unordered input holding one timestamp twice, under two
\* sources, has been collapsed to a two-entry timeline.
C5_Witness ==
    /\ pc = "scan"
    /\ Len(df.rows) = 3
    /\ Len(timeline) = 2
    /\ df.rows[1].timestamp > df.rows[2].timestamp
    /\ \E j \in DOMAIN df.rows : \E k \in DOMAIN df.rows :
           /\ df.rows[j].timestamp = df.rows[k].timestamp
           /\ df.rows[j].source # df.rows[k].source

\* C8: every period built so far ends after it starts, has a duration that
\* is its length in hours, is dated by the day of its start, and carries the
\* sources of the two adjacent timeline events that bound it.
C8_PeriodRecordInvariant ==
    \A k \in DOMAIN sleep_periods :
        LET p == sleep_periods[k]
        IN  /\ p.sleep_end > p.sleep_start
            /\ p.duration_hours.num * MinutesPerHour =
                   (p.sleep_end - p.sleep_start) * p.duration_hours.den
            /\ p.date * MinutesPerDay <= p.sleep_start
            /\ p.sleep_start < (p.date + 1) * MinutesPerDay
            /\ \E j \in 1..(Len(timeline) - 1) :
                   /\ timeline[j].timestamp = p.sleep_start
                   /\ timeline[j + 1].timestamp = p.sleep_end
                   /\ timeline[j].source = p.start_source
                   /\ timeline[j + 1].source = p.end_source

\* C8 witness: a returned period that starts on one day, ends on the next
\* and is bounded by events of two different sources.
C8_Witness ==
    /\ pc = "inferred"
    /\ \E k \in DOMAIN sleep_df.rows :
           LET p == sleep_df.rows[k]
           IN  /\ p.sleep_end \div MinutesPerDay > p.sleep_start \div MinutesPerDay
               /\ p.start_source # p.end_source
               /\ p = sleep_periods[k]

\* C9: the periods are in strictly ascending order of sleep_start and do not
\* overlap, and an input of n >= 1 distinct timestamps has at most n - 1
\* periods (none when n = 0).
C9_AscendingDisjointBounded ==
    /\ \A k \in 1..(Len(sleep_periods) - 1) :
           /\ sleep_periods[k].sleep_start < sleep_periods[k + 1].sleep_start
           /\ sleep_periods[k].sleep_end <= sleep_periods[k + 1].sleep_start
    /\ Cardinality(InputTimes) >= 1 =>
           Len(sleep_periods) <= Cardinality(InputTimes) - 1
    /\ Cardinality(InputTimes) = 0 => sleep_periods = <<>>
    /\ pc = "inferred" => sleep_df.rows = sleep_periods

\* C9 witness: an input given out of order has returned two periods.
C9_Witness ==
    /\ pc = "inferred"
    /\ Len(sleep_df.rows) = 2
    /\ df.rows[1].timestamp > df.rows[3].timestamp

----------------------------------------------------------------------------
(* Properties of analyze_sleep_patterns *)

HoursOfDay == 0..(HoursPerDay - 1)

StartHours ==
    [k \in DOMAIN sleep_df.rows |->
        (sleep_df.rows[k].sleep_start % MinutesPerDay) \div MinutesPerHour]

EndHours ==
    [k \in DOMAIN sleep_df.rows |->
        (sleep_df.rows[k].sleep_end % MinutesPerDay) \div MinutesPerHour]

Occurrences(h, hours) == Cardinality({k \in DOMAIN hours : hours[k] = h})

SmallestMostFrequent(h, hours) ==
    /\ h \in HoursOfDay
    /\ Occurrences(h, hours) >= 1
    /\ \A g \in HoursOfDay :
           \/ Occurrences(g, hours) < Occurrences(h, hours)
           \/ Occurrences(g, hours) = Occurrences(h, hours) /\ h <= g

\* C2: when infer_sleep_periods returned no period, the statistics block
\* ends with a result and without a fault.
C2_EmptyPeriodsGiveNoData ==
    (pc \in {"analyzed", "stats_raised"} /\ sleep_df.rows = <<>>) =>
        (pc = "analyzed" /\ fault = "none")

\* C7: for a non-empty sequence of periods the statistics are computed;
\* most_common_sleep_hour and most_common_wake_hour are hours in 0..23, each
\* the smallest of the most frequent hours of day of sleep_start and
\* sleep_end; num_days is the number of periods.
C7_ModeHoursAndNightCount ==
    /\ (pc \in {"analyzed", "stats_raised"} /\ sleep_df.rows # <<>>) =>
           pc = "analyzed"
    /\ pc = "analyzed" =>
           /\ SmallestMostFrequent(stats.most_common_sleep_hour, StartHours)
           /\ SmallestMostFrequent(stats.most_common_wake_hour, EndHours)
           /\ stats.num_days = Len(sleep_df.rows)

\* C7 witness: three periods, two of them on the same date; 15 is the most
\* frequent start hour although 1 is smaller, and the end hours 1, 15 and 2
\* tie, so that 1 is taken.
C7_Witness ==
    /\ pc = "analyzed"
    /\ stats.num_days = 3
    /\ stats.most_common_sleep_hour = 15
    /\ stats.most_common_wake_hour = 1
    /\ Range(StartHours) = {1, 15}
    /\ Range(EndHours) = {1, 2, 15}
    /\ sleep_df.rows[2].date = sleep_df.rows[3].date

----------------------------------------------------------------------------
(* Properties of load_browser_history *)

RECURSIVE WellFormedInWindow(_)
WellFormedInWindow(list) ==
    IF list = <<>> THEN <<>>
    ELSE LET e == list[1]
         IN  IF /\ e.form = "dict"
                /\ e.field \in {"int", "numstr"}
                /\ e.value >= Now - DefaultDays * MinutesPerDay
             THEN <<[timestamp |-> e.value, source |-> "chrome"]>>
                      \o WellFormedInWindow(Tail(list))
             ELSE WellFormedInWindow(Tail(list))

\* C6: no entry makes load_browser_history raise; it returns the frame of
\* exactly the well-formed entries inside the window, in input order.
C6_MalformedEntriesSkipped ==
    /\ pc # "load_raised"
    /\ fault = "none"
    /\ pc = "loaded" => df = DataFrame(WellFormedInWindow(entries))

----------------------------------------------------------------------------
(* Properties of load_youtube_history *)

\* C10: the records of the chunked scan are those of one scan of the whole
\* text, and the carried text holds no complete line.
C10_ChunkedScanEqualsWholeScan ==
    /\ pc = "yt_loaded" => yt_records = MatchRecords(FindIter(content))
    /\ \A k \in DOMAIN text_buffer : text_buffer[k] # "n"

====
